---- MODULE Spec2Model ----
(***************************************************************************)
(* The 2D Ising model simulation of src/src/main.rs: the function run      *)
(* (hot or cold start, "before" plot, probability table, STEPS sweeps of   *)
(* single-spin Metropolis updates with periodic boundaries, "after" plot). *)
(* One action per loop iteration or call of run.  Arrays are functions on  *)
(* 0..len-1, as the code indexes them.                                     *)
(***************************************************************************)
EXTENDS Integers, FiniteSets

(* ------------------------------------------------------------------ *)
(* Constants of the program.  STEPS, SIDE and the width of the draws    *)
(* are scaled down so that the state space is finite: main.rs sets     *)
(* STEPS = 1000 and SIDE = 1000 and draws 64-bit values.               *)
(* ------------------------------------------------------------------ *)

\* main.rs:27  const J: i8 = 1
J == 1

\* main.rs:28  const STEPS (1000 in the source)
STEPS == 2

\* main.rs:29  const SIDE (1000 in the source)
SIDE == 2

\* Width of the unsigned draws and thresholds (64 in the source: u64).
U64_BITS == 1

\* main.rs:31-33
NROWS == SIDE
NCOLUMNS == SIDE
LEN == NROWS * NCOLUMNS

\* main.rs:74  let mut probs = [0u64; 9]
PROBS_LEN == 9

RECURSIVE Pow2(_)
Pow2(n) == IF n <= 0 THEN 1 ELSE 2 * Pow2(n - 1)

\* 2f64.powi(64) and u64::MAX at the scaled width.
Two64 == Pow2(U64_BITS)
U64_MAX == Two64 - 1

\* usize at a scaled width: `k as usize` of a negative i8 wraps to a huge value.
UsizeModulus == Pow2(16)
AsUsize(x) == x % UsizeModulus

(* ------------------------------------------------------------------ *)
(* Inputs of run(order, t).  A temperature is written as the fraction   *)
(* <<p, q>> with exp(2 * beta) = p / q > 1 (beta = 1 / t, main.rs:48):  *)
(* two hot ones (at 9/8 every threshold is positive) and one so cold    *)
(* that every threshold of a positive increment rounds down to 0.       *)
(* ------------------------------------------------------------------ *)
Betas == {<<9, 8>>, <<5, 4>>, <<2 * Two64, 1>>}

RECURSIVE Pow(_, _)
Pow(x, m) == IF m <= 0 THEN 1 ELSE x * Pow(x, m - 1)

\* f64::exp(-2. * beta * increment) as the fraction PtempNum / PtempDen.
PtempNum(b, inc) == IF inc < 0 THEN Pow(b[1], 0 - inc) ELSE Pow(b[2], inc)
PtempDen(b, inc) == IF inc < 0 THEN Pow(b[2], 0 - inc) ELSE Pow(b[1], inc)

\* (2f64.powi(64) * ptemp) as u64: truncation toward zero, saturating at u64::MAX.
CastU64(num, den) ==
    LET v == (Two64 * num) \div den
    IN  IF v > U64_MAX THEN U64_MAX ELSE v

\* main.rs:74-80: the table, increment running from -4.0 by 1.0.
BuildProbs(b) ==
    [idx \in 0..(PROBS_LEN - 1) |-> CastU64(PtempNum(b, idx - 4), PtempDen(b, idx - 4))]

(* ------------------------------------------------------------------ *)
(* The sweep's index arithmetic, main.rs:102-118.                       *)
(* ------------------------------------------------------------------ *)
INorth(i) == ((i + 1) % NROWS) * NROWS
ISouth(i) == IF i = 0 THEN (NROWS - 1) * NROWS ELSE (i - 1) * NROWS
IRow(i) == i * NROWS
JEast(j) == (j + 1) % NCOLUMNS
\* A west neighbour that stops at the left edge instead of wrapping.
JWestNoWrap(j) == IF j = 0 THEN 0 ELSE j - 1
JWest(j) == IF j = 0 THEN (j + NCOLUMNS - 1) % NCOLUMNS ELSE j - 1

\* The five flat indices one visit reads, main.rs:120-124.
Reads(i, j) ==
    [nn |-> INorth(i) + j, ss |-> ISouth(i) + j,
     ee |-> IRow(i) + JEast(j), ww |-> IRow(i) + JWest(j),
     site |-> IRow(i) + j]

InBounds(r) ==
    /\ r.nn < LEN /\ r.ss < LEN /\ r.ee < LEN /\ r.ww < LEN /\ r.site < LEN

(* ------------------------------------------------------------------ *)
(* State of one call of run.                                            *)
(* ------------------------------------------------------------------ *)
VARIABLES
    order,      \* run's argument: TRUE = hot start, FALSE = cold start
    beta,       \* run's temperature, as <<p, q>> with exp(2 * beta) = p / q
    arr,        \* the lattice, [0i8; LEN] at construction
    pc,         \* where run is: init, plot_before, probs, sweep, plot_after, returned, panicked
    n,          \* position of the hot-start loop over arr.iter_mut()
    probs,      \* the threshold table
    step, i, j, \* the three loop counters of the sweep loop: the next cell to visit
    rd,         \* flat indices read by the last visit
    en, pcomp, k, flip,   \* locals of the last visit
    visits,     \* number of cell visits performed so far
    vi, vj,     \* loop counters (i, j) of the last visit
    lastflip,   \* flat index the last visit flipped, or -1
    plot_err,   \* which call of plot returned Err: none, before, after
    panic       \* why run panicked: none, unwrap, assert_index, index, assert_k

vars == <<order, beta, arr, pc, n, probs, step, i, j, rd, en, pcomp, k, flip,
          visits, vi, vj, lastflip, plot_err, panic>>

Cells == 0..(LEN - 1)

\* main.rs:45-46, 74: the state when run starts.
Init ==
    /\ order \in BOOLEAN
    /\ beta \in Betas
    /\ arr = [c \in Cells |-> 0]
    /\ pc = "init"
    /\ n = 0
    /\ probs = [idx \in 0..(PROBS_LEN - 1) |-> 0]
    /\ step = 0 /\ i = 0 /\ j = 0
    /\ rd = [nn |-> 0, ss |-> 0, ee |-> 0, ww |-> 0, site |-> 0]
    /\ en = 0 /\ pcomp = 0 /\ k = 0 /\ flip = FALSE
    /\ visits = 0 /\ vi = 0 /\ vj = 0
    /\ lastflip = -1
    /\ plot_err = "none"
    /\ panic = "none"

\* A hot start that encodes the down spin as 0.
HotSpinZeroOne(b) == IF b THEN 1 ELSE 0

\* main.rs:57: if rng.gen_bool(0.5) { 1i8 } else { -1i8 }
HotSpin(b) == IF b THEN 1 ELSE -1

\* main.rs:60: arr = [1i8; LEN]
ColdLattice == [c \in Cells |-> 1]

\* main.rs:56-58: one iteration of the hot-start loop.
HotInitCell ==
    /\ pc = "init" /\ order /\ n < LEN
    /\ \E b \in BOOLEAN : arr' = [arr EXCEPT ![n] = HotSpin(b)]
    /\ n' = n + 1
    /\ pc' = IF n + 1 < LEN THEN "init" ELSE "plot_before"
    /\ UNCHANGED <<order, beta, probs, step, i, j, rd, en, pcomp, k, flip,
                   visits, vi, vj, lastflip, plot_err, panic>>

\* main.rs:59-61: the cold start.
ColdInit ==
    /\ pc = "init" /\ ~order
    /\ arr' = ColdLattice
    /\ pc' = "plot_before"
    /\ UNCHANGED <<order, beta, n, probs, step, i, j, rd, en, pcomp, k, flip,
                   visits, vi, vj, lastflip, plot_err, panic>>

\* main.rs:64: plot(&arr, "before.png").unwrap(); plot (150-167) returns Ok or Err
\* and only reads the lattice; unwrap panics on Err.
PlotBefore ==
    /\ pc = "plot_before"
    /\ \E ok \in BOOLEAN :
         IF ok
         THEN /\ pc' = "probs"
              /\ UNCHANGED <<plot_err, panic>>
         ELSE /\ pc' = "panicked"
              /\ plot_err' = "before"
              /\ panic' = "unwrap"
    /\ UNCHANGED <<order, beta, arr, n, probs, step, i, j, rd, en, pcomp, k, flip,
                   visits, vi, vj, lastflip>>

\* main.rs:74-80, and the entry of the loop of line 98.
MakeProbs ==
    /\ pc = "probs"
    /\ probs' = BuildProbs(beta)
    /\ pc' = IF STEPS > 0 /\ NROWS > 0 /\ NCOLUMNS > 0 THEN "sweep" ELSE "plot_after"
    /\ UNCHANGED <<order, beta, arr, n, step, i, j, rd, en, pcomp, k, flip,
                   visits, vi, vj, lastflip, plot_err, panic>>

\* A read that sees the cell the previous visit flipped as it was before that flip
\* (a buffered, synchronous sweep).
SpinStale(a, idx) == IF idx = lastflip THEN 0 - a[idx] ELSE a[idx]

\* main.rs:120-124: a read of the lattice.
Spin(a, idx) == a[idx]

\* main.rs:126: let en = J * site * (nn + ss + ww + ee)
LocalEnergy(a, r) ==
    J * Spin(a, r.site) * (Spin(a, r.nn) + Spin(a, r.ss) + Spin(a, r.ww) + Spin(a, r.ee))

\* A table index without the offset of 4.
KIndexNoOffset(e) == e

\* main.rs:129: let k = 4 + en
KIndex(e) == 4 + e

\* An acceptance test that also accepts a draw equal to the threshold.
FlipInclusive(p, pr, kk) == p <= pr[kk]

\* main.rs:131: let flip = *pcomp < probs[k as usize]
Flip(p, pr, kk) == p < pr[kk]

\* An update with the two branches exchanged.
NewSpinInverted(s, f) == IF f THEN s ELSE 0 - s

\* main.rs:133: if flip { -arr[i + j] } else { arr[i + j] }
NewSpin(s, f) == IF f THEN 0 - s ELSE s

\* A column loop that stops one column early.
LoopNextShort(s, ii, jj) ==
    IF jj + 1 < NCOLUMNS - 1 THEN [step |-> s, i |-> ii, j |-> jj + 1, done |-> FALSE]
    ELSE IF ii + 1 < NROWS THEN [step |-> s, i |-> ii + 1, j |-> 0, done |-> FALSE]
    ELSE IF s + 1 < STEPS THEN [step |-> s + 1, i |-> 0, j |-> 0, done |-> FALSE]
    ELSE [step |-> s + 1, i |-> 0, j |-> 0, done |-> TRUE]

\* main.rs:98-100: the three nested range loops, advanced by one cell.
LoopNext(s, ii, jj) ==
    IF jj + 1 < NCOLUMNS THEN [step |-> s, i |-> ii, j |-> jj + 1, done |-> FALSE]
    ELSE IF ii + 1 < NROWS THEN [step |-> s, i |-> ii + 1, j |-> 0, done |-> FALSE]
    ELSE IF s + 1 < STEPS THEN [step |-> s + 1, i |-> 0, j |-> 0, done |-> FALSE]
    ELSE [step |-> s + 1, i |-> 0, j |-> 0, done |-> TRUE]

\* main.rs:101-133: one iteration of the innermost loop, the visit of cell (i, j).
Visit ==
    /\ pc = "sweep"
    /\ LET r == Reads(i, j)
           e == LocalEnergy(arr, r)
           kk == KIndex(e)
           nx == LoopNext(step, i, j)
       IN  /\ rd' = r
           /\ vi' = i /\ vj' = j
           /\ visits' = visits + 1
           /\ IF ~(r.site < LEN)
              THEN \* assert!(i + j < arr.len()) fails
                   /\ pc' = "panicked" /\ panic' = "assert_index"
                   /\ UNCHANGED <<arr, step, i, j, en, pcomp, k, flip, lastflip>>
              ELSE IF ~InBounds(r)
              THEN \* a neighbour index outside the array
                   /\ pc' = "panicked" /\ panic' = "index"
                   /\ UNCHANGED <<arr, step, i, j, en, pcomp, k, flip, lastflip>>
              ELSE \E draw \in 0..U64_MAX :  \* rng.gen::<u64>()
                   /\ en' = e /\ pcomp' = draw /\ k' = kk
                   /\ IF ~(AsUsize(kk) < PROBS_LEN)
                      THEN \* assert!((k as usize) < probs.len()) fails
                           /\ pc' = "panicked" /\ panic' = "assert_k"
                           /\ UNCHANGED <<arr, step, i, j, flip, lastflip>>
                      ELSE LET f == Flip(draw, probs, kk)
                           IN  /\ flip' = f
                               /\ arr' = [arr EXCEPT ![r.site] = NewSpin(arr[r.site], f)]
                               /\ lastflip' = IF f THEN r.site ELSE -1
                               /\ step' = nx.step /\ i' = nx.i /\ j' = nx.j
                               /\ pc' = IF nx.done THEN "plot_after" ELSE "sweep"
                               /\ UNCHANGED panic
    /\ UNCHANGED <<order, beta, n, probs, plot_err>>

\* main.rs:143: plot(&arr, "after.png").unwrap()
PlotAfter ==
    /\ pc = "plot_after"
    /\ \E ok \in BOOLEAN :
         IF ok
         THEN /\ pc' = "returned"
              /\ UNCHANGED <<plot_err, panic>>
         ELSE /\ pc' = "panicked"
              /\ plot_err' = "after"
              /\ panic' = "unwrap"
    /\ UNCHANGED <<order, beta, arr, n, probs, step, i, j, rd, en, pcomp, k, flip,
                   visits, vi, vj, lastflip>>

Next ==
    \/ HotInitCell
    \/ ColdInit
    \/ PlotBefore
    \/ MakeProbs
    \/ Visit
    \/ PlotAfter

Spec == Init /\ [][Next]_vars

Halted == pc \in {"returned", "panicked"}

(* ------------------------------------------------------------------ *)
(* The claims.  The neighbour coordinates and the row-major index are   *)
(* written here as the specification states them.                       *)
(* ------------------------------------------------------------------ *)
Visited == visits > 0

SpecIndex(row, col) == row * NCOLUMNS + col
SpecNorth == SpecIndex((vi + 1) % NROWS, vj)
SpecSouth == SpecIndex((vi - 1 + NROWS) % NROWS, vj)
SpecEast == SpecIndex(vi, (vj + 1) % NCOLUMNS)
SpecWest == SpecIndex(vi, (vj - 1 + NCOLUMNS) % NCOLUMNS)
SpecSite == SpecIndex(vi, vj)

\* The lattice as it was when the last visit began: the visit changes at most
\* the visited cell, and negates it exactly when flip is set.
PreLattice == [arr EXCEPT ![SpecSite] = IF flip THEN 0 - @ ELSE @]

PreEnergy ==
    J * PreLattice[SpecSite]
      * (PreLattice[SpecNorth] + PreLattice[SpecSouth] + PreLattice[SpecEast] + PreLattice[SpecWest])

LoopExited == pc \in {"plot_after", "returned"} \/ plot_err = "after"

\* C1: once initialization has finished, hot or cold, every lattice cell holds
\* exactly +1 or -1, after every cell visit and after any number of sweeps.
C1_SpinsAreUnit == pc # "init" => \A c \in Cells : arr[c] \in {1, -1}

\* A hot start, more than one sweep done, the last visit flipped, and both spin
\* values are present.
C1_Witness ==
    /\ order /\ visits > LEN /\ flip
    /\ \E c, d \in Cells : arr[c] = 1 /\ arr[d] = -1

\* C2: in every cell visit, with en = J * site * (north + south + east + west)
\* taken from the current lattice and k = 4 + en, the visited cell is negated
\* if and only if the draw is strictly below probs[k]; otherwise it keeps its value.
C2_FlipIffBelowThreshold ==
    [][(pc = "sweep" /\ visits' = visits + 1) =>
         LET s == SpecIndex(i, j)
             e == J * arr[s] * (arr[SpecIndex((i + 1) % NROWS, j)]
                                + arr[SpecIndex((i - 1 + NROWS) % NROWS, j)]
                                + arr[SpecIndex(i, (j + 1) % NCOLUMNS)]
                                + arr[SpecIndex(i, (j - 1 + NCOLUMNS) % NCOLUMNS)])
         IN  /\ k' = 4 + e
             /\ (pcomp' < probs[4 + e]) => arr'[s] = 0 - arr[s]
             /\ ~(pcomp' < probs[4 + e]) => arr'[s] = arr[s]
             /\ \A c \in Cells \ {s} : arr'[c] = arr[c]]_vars

\* A visit that flipped a cell although the flip raises the energy (en > 0): the
\* draw was below the threshold of the table.
C2_Witness ==
    /\ Visited /\ en > 0 /\ flip /\ pcomp < probs[k]
    /\ arr[SpecSite] = 0 - PreLattice[SpecSite]

C4_Order ==
    /\ visits <= STEPS * LEN
    /\ (Visited => /\ vi = ((visits - 1) % LEN) \div NCOLUMNS
                   /\ vj = ((visits - 1) % LEN) % NCOLUMNS)
    /\ (pc = "sweep" => visits < STEPS * LEN)
    /\ (LoopExited => visits = STEPS * LEN)

\* A measure of how far run has come: every step of run raises it, and it never
\* exceeds ProgressBound, so no run takes more than ProgressBound steps.
Stage ==
    CASE pc = "init" -> 0
      [] pc = "plot_before" -> 1
      [] pc = "probs" -> 2
      [] pc = "sweep" -> 3
      [] pc = "plot_after" -> 4
      [] OTHER -> 5
Progress == n + visits + Stage
ProgressBound == LEN + STEPS * LEN + 5

C5_InPlaceUpdate == (Visited /\ panic \in {"none", "unwrap"}) => en = PreEnergy

\* In the first sweep of a cold start (every cell +1 when the sweep began) the
\* west neighbour, visited just before in the same row, holds -1: it was flipped
\* earlier in this sweep, and the local field counts it as -1.
C5_Witness ==
    /\ ~order /\ Visited /\ visits <= LEN /\ vj >= 1
    /\ PreLattice[SpecWest] = -1
    /\ en = PreEnergy
    /\ en # J * 1 * (PreLattice[SpecNorth] + PreLattice[SpecSouth] + PreLattice[SpecEast] + 1)

\* C6: in every cell visit where en is negative, the cell is flipped, for every
\* value of the draw.
C6_AlwaysFlipWhenEnergyLowered == (Visited /\ en < 0) => flip

\* C7: from the cold lattice, with beta so large that the threshold for en = 4
\* is 0, no spin ever flips: the lattice stays all +1.
C7_ColdFixedPoint ==
    (~order /\ pc # "init" /\ probs[8] = 0) => arr = [c \in Cells |-> 1]

\* A cold start at such a temperature that returned after all its sweeps.
C7_Witness ==
    /\ ~order /\ probs[8] = 0 /\ pc = "returned" /\ visits = STEPS * LEN
    /\ arr = [c \in Cells |-> 1]

\* C8: a failure of the rendering collaborator, for the "before" or the "after"
\* snapshot, does not abort the run.
C8_RenderFailureRecoverable == plot_err # "none" => pc # "panicked"

\* C10: in every cell visit the table index k = 4 + en is one of 0, 2, 4, 6, 8 and
\* the cell index i*NROWS + j is below the lattice length, so neither assertion
\* of the sweep loop fails.
C10_IndicesInRange ==
    /\ panic \notin {"assert_index", "assert_k", "index"}
    /\ Visited => /\ k \in {0, 2, 4, 6, 8}
                  /\ rd.site = vi * NROWS + vj
                  /\ rd.site < LEN

\* The visit of the last cell of the lattice with the lowest table index.
C10_Witness ==
    /\ Visited /\ vi = NROWS - 1 /\ vj = NCOLUMNS - 1
    /\ rd.site = LEN - 1 /\ k = 0

====
